---- MODULE Spec2Model ----
(***************************************************************************)
(* Order ledger, payment reconciliation and delivery of the shop bot       *)
(* (src/app.py): the buy action of button_callback, the /confirm poll      *)
(* confirm_cmd and the payment webhook blockonomics_callback, run as       *)
(* asyncio tasks of one event loop.  A step of the model is the code a     *)
(* task runs between two suspension points (an await that really waits:    *)
(* a gateway call, a chat send, a wait for orders_lock).                   *)
(*                                                                         *)
(* Amounts: a float number of BTC is modelled as an integer number of      *)
(* 1e-12 BTC, the size of the epsilon of confirm_cmd; satoshi values stay  *)
(* integers.  The gateway issues a fresh address for every purchase (the   *)
(* i-th address issued is the number i), so an order dict is identified by *)
(* its address.  Writes of the ledger file are taken to succeed.           *)
(***************************************************************************)
EXTENDS Integers, Sequences, FiniteSets, TLC

\* ---------------------------------------------------------------- bounds
MaxTasks == 2      \* handlers in progress at the same time
MaxOrders == 2     \* addresses the gateway issues
MaxRuns == 3       \* /confirm polls and payment callbacks ever started
MaxCallbacks == 3  \* callbacks in progress at the same time, when only callbacks run

\* ---------------------------------------------------------------- inputs
Tasks == 1..MaxTasks
CallbackTasks == 1..MaxCallbacks
Addrs == 1..MaxOrders
Users == {"u1", "u2"}
Chats == {"c1", "c2"}
Buyers == {<<"u1", "c1">>, <<"u2", "c2">>}   \* (user, chat) of a purchase
Values == {5000, 10000, 15000}         \* satoshi amounts reported or polled
Txids == {"tx1"}
None == "None"

\* ---------------------------------------------------------------- program constants
UnitPerSat == 10000                    \* 1e-8 BTC (sat / 1e8) in units of 1e-12 BTC
Epsilon == 1                           \* 1e-12 BTC
Confirmed == 2                         \* status code of a confirmed payment
SECRET == "change-me"                  \* BLOCKONOMICS_CALLBACK_SECRET

\* ITEMS: price_btc in units of 1e-12 BTC (0.0001 BTC)
ITEMS == [item1 |-> [name |-> "Dark Secret Card", price_btc |-> 100000000,
                     file_path |-> "items/secret.pdf"]]
ItemKeys == DOMAIN ITEMS

VARIABLES
  ORDERS,    \* the dict ORDERS: its order dicts, in key (insertion) order
  disk,      \* content of ORDERS_FILE
  lock,      \* orders_lock: the holder followed by the waiters, in order
  tasks,     \* the handlers in progress
  issued,    \* addresses issued by the gateway so far
  sends,     \* per address: sends of the order's file that completed
  was,       \* per address: the order's status has been "delivered" at some time
  runs,      \* polls and callbacks started so far
  ev,        \* what the last step did, when it ended a handler or sent a file
  failed,    \* per address: a delivery of the order's file was attempted and failed
  query      \* a call of blockonomics_confirmed_btc on its own: inputs and outcome

vars == <<ORDERS, disk, lock, tasks, issued, sends, was, runs, ev, failed, query>>

\* ---------------------------------------------------------------- helpers
Idle == [kind |-> "idle", pc |-> "idle", user |-> None, chat |-> None,
         item |-> None, addr |-> 0, status |-> 0, value |-> 0,
         txid |-> None, after |-> FALSE, base |-> 0]

NoEv == [op |-> "none", addr |-> 0, to |-> None, http |-> 0, short |-> -1,
         status |-> 0, value |-> 0, txid |-> None, file |-> FALSE,
         secret |-> None]

Ev(op, a) == [NoEv EXCEPT !.op = op, !.addr = a]

\* no call of blockonomics_confirmed_btc is looked at on its own
NoQuery == [pc |-> "none"]

\* position of the order stored under address a in dict D, 0 when absent
Pos(D, a) ==
  IF \E i \in 1..Len(D) : D[i].address = a
  THEN CHOOSE i \in 1..Len(D) : D[i].address = a
  ELSE 0

\* ORDERS.get(addr) finds an order
Known(a) == Pos(ORDERS, a) # 0

\* the order dict stored under address a
Order(a) == ORDERS[Pos(ORDERS, a)]

\* json.dump of the dict to the temporary file, then os.replace
save_json(D) == D

\* sat / 1e8, in units of 1e-12 BTC
SatToBtc(sat) == sat * UnitPerSat

\* int(round(x * 1e8)) of an amount in BTC: nearest integer, ties to even
RoundSats(btc) ==
  LET q == btc \div UnitPerSat
      r == btc % UnitPerSat
  IN  IF 2 * r < UnitPerSat THEN q
      ELSE IF 2 * r > UnitPerSat THEN q + 1
      ELSE IF q % 2 = 0 THEN q ELSE q + 1

\* f"{x:.8f}": the amount rounded to 8 decimals, as a count of 1e-8 BTC
Fmt8(btc) == RoundSats(btc)

\* the file paths of the catalog; any of them may exist on the filesystem when
\* a handler looks (the check and the open of a handler are one step)
Paths == {ITEMS[k].file_path : k \in ItemKeys}

\* fpath and os.path.exists(fpath), files being the paths that exist
FileExists(item_key, files) ==
  item_key \in ItemKeys /\ ITEMS[item_key].file_path \in files

\* ---------------------------------------------------------------- orders_lock
Free == lock = <<>>
Holds(t) == lock # <<>> /\ Head(lock) = t

TypeOK ==
  /\ Len(ORDERS) <= issued
  /\ issued \in 0..MaxOrders
  /\ runs \in 0..MaxRuns

\* a handler starts in the lowest free slot (the slots are interchangeable)
CanStart(t) ==
  /\ tasks[t] = Idle
  /\ \A s \in Tasks : s < t => tasks[s] # Idle

Finish(t) == tasks' = [tasks EXCEPT ![t] = Idle]

Init ==
  /\ ORDERS = <<>>
  /\ disk = <<>>
  /\ lock = <<>>
  /\ tasks = [t \in Tasks |-> Idle]
  /\ issued = 0
  /\ sends = [a \in Addrs |-> 0]
  /\ was = [a \in Addrs |-> FALSE]
  /\ runs = 0
  /\ ev = NoEv
  /\ failed = [a \in Addrs |-> FALSE]
  /\ query = NoQuery

\* ---------------------------------------------------------------- button_callback, "item_" branch
\* the order dict of lines 271-280
NewOrder(item_key, user, chat, address) ==
  [item_key |-> item_key, user_id |-> user, chat_id |-> chat,
   address |-> address, amount_btc |-> ITEMS[item_key].price_btc,
   status |-> "pending", txid |-> None, received_sats |-> 0]

\* lines 281-283 with the lock held: ORDERS[address] = order; save_json
StoreOrder(order) ==
  /\ ORDERS' = Append(ORDERS, order)
  /\ disk' = save_json(ORDERS')

\* a buyer presses an item button.  Up to the return of
\* blockonomics_new_address the handler reads and writes nothing shared, so the
\* step is taken when the gateway answers: the address is issued or the call
\* raises; the order is stored when the lock is free, else the handler queues
Buy(t) ==
  /\ CanStart(t)
  /\ \E item_key \in ItemKeys \cup {"gone"}, b \in Buyers, gateway \in {"ok", "error"} :
       IF item_key \notin ItemKeys
       THEN /\ ev' = Ev("buy_noitem", 0)
            /\ UNCHANGED <<ORDERS, disk, lock, tasks, issued>>
       ELSE IF gateway = "error"
       THEN /\ ev' = Ev("buy_gwfail", 0)
            /\ UNCHANGED <<ORDERS, disk, lock, tasks, issued>>
       ELSE /\ issued < MaxOrders
            /\ issued' = issued + 1
            /\ LET order == NewOrder(item_key, b[1], b[2], issued + 1) IN
                 IF Free
                 THEN /\ StoreOrder(order)
                      /\ ev' = Ev("buy_stored", order.address)
                      /\ UNCHANGED <<lock, tasks>>
                 ELSE /\ tasks' = [tasks EXCEPT ![t] =
                           [Idle EXCEPT !.kind = "buy", !.pc = "lock", !.item = item_key,
                              !.user = b[1], !.chat = b[2], !.addr = order.address]]
                      /\ lock' = Append(lock, t)
                      /\ ev' = NoEv
                      /\ UNCHANGED <<ORDERS, disk>>
  /\ UNCHANGED <<sends, was, runs, failed, query>>

\* the waiting buy handler is given the lock
BuyStore(t) ==
  /\ tasks[t].kind = "buy" /\ tasks[t].pc = "lock" /\ Holds(t)
  /\ StoreOrder(NewOrder(tasks[t].item, tasks[t].user, tasks[t].chat, tasks[t].addr))
  /\ lock' = Tail(lock)
  /\ Finish(t)
  /\ ev' = Ev("buy_stored", tasks[t].addr)
  /\ UNCHANGED <<issued, sends, was, runs, failed, query>>

\* ---------------------------------------------------------------- confirm_cmd
\* (mutant) the scan runs forward: the first pending order of uid is taken
LastPending_First(uid) ==
  LET hits == {i \in 1..Len(ORDERS) :
                 ORDERS[i].user_id = uid /\ ORDERS[i].status = "pending"}
  IN  IF hits = {} THEN 0
      ELSE ORDERS[CHOOSE i \in hits : \A j \in hits : i <= j].address

\* (mutant) the scan does not compare the user: the last pending order is taken
LastPending_AnyUser(uid) ==
  LET hits == {i \in 1..Len(ORDERS) : ORDERS[i].status = "pending"}
  IN  IF hits = {} THEN 0
      ELSE ORDERS[CHOOSE i \in hits : \A j \in hits : j <= i].address

\* lines 306-310: the address of the last entry of ORDERS, in key order, that
\* is a pending order of uid; 0 when there is none
LastPending(uid) ==
  LET hits == {i \in 1..Len(ORDERS) :
                 ORDERS[i].user_id = uid /\ ORDERS[i].status = "pending"}
  IN  IF hits = {} THEN 0
      ELSE ORDERS[CHOOSE i \in hits : \A j \in hits : j <= i].address

\* (mutant) the epsilon on the wrong side of the comparison
Satisfied_M(received, required) == received >= required + Epsilon

\* line 324: received + 1e-12 >= required
Satisfied(received, required) == received + Epsilon >= required

\* (mutant) the operands of the subtraction swapped
Shortfall_M(required, received) == received - required

\* line 341
Shortfall(required, received) == required - received

\* the assignment order["status"] = "delivered" (lines 336 and 435)
SetDelivered(D, a) == [D EXCEPT ![Pos(D, a)].status = "delivered"]

\* (mutant) the status is assigned although the send raised
SendFailed_M(D, a) == SetDelivered(D, a)

\* (mutant) a send that raised takes the order out of the pending orders
SendFailed_Mark(D, a) == [D EXCEPT ![Pos(D, a)].status = "failed"]

\* the send raised: the except clauses of lines 338 and 436 leave the order alone
SendFailed(D, a) == D

\* lines 335-337 with the lock held
MarkDelivered(a) ==
  /\ ORDERS' = SetDelivered(ORDERS, a)
  /\ was' = [was EXCEPT ![a] = TRUE]
  /\ disk' = save_json(ORDERS')

\* /confirm arrives: the scan for the user's order, up to the balance query
ConfirmStart(t) ==
  /\ CanStart(t)
  /\ runs < MaxRuns
  /\ runs' = runs + 1
  /\ \E uid \in Users, chat \in Chats :
       LET a == LastPending(uid) IN
       IF a = 0
       THEN /\ ev' = [Ev("confirm_none", 0) EXCEPT !.to = uid]
            /\ UNCHANGED tasks
       ELSE /\ tasks' = [tasks EXCEPT ![t] =
                 [Idle EXCEPT !.kind = "confirm", !.pc = "balance", !.user = uid,
                              !.chat = chat, !.addr = a,
                              !.after = was[a], !.base = sends[a]]]
            /\ ev' = NoEv
  /\ UNCHANGED <<ORDERS, disk, lock, issued, sends, was, failed, query>>

\* (mutant) the failed query is taken for a payment and the delivery goes on
BalanceFailed_M(t, a) ==
  /\ tasks' = [tasks EXCEPT ![t].pc = "send"]
  /\ ev' = Ev("confirm_gwfail", a)

\* lines 320-322: the query raised, the handler replies and returns
BalanceFailed(t, a) ==
  /\ Finish(t)
  /\ ev' = Ev("confirm_gwfail", a)

\* a delivery attempt for the order under address a ends in failure
AttemptFailed(a) == failed' = [failed EXCEPT ![a] = TRUE]

\* blockonomics_confirmed_btc returns or raises; lines 324-328 and 340-347
ConfirmBalance(t) ==
  LET a == tasks[t].addr
      required == Order(a).amount_btc
  IN
  /\ tasks[t].kind = "confirm" /\ tasks[t].pc = "balance"
  /\ \/ /\ BalanceFailed(t, a)
        /\ UNCHANGED failed
     \/ \E sat \in Values, files \in SUBSET Paths :
          LET received == SatToBtc(sat) IN
          IF Satisfied(received, required)
          THEN IF ~FileExists(Order(a).item_key, files)
               THEN /\ Finish(t)
                    /\ AttemptFailed(a)
                    /\ ev' = [Ev("confirm_nofile", a) EXCEPT !.value = sat]
               ELSE /\ tasks' = [tasks EXCEPT ![t].pc = "send", ![t].value = sat]
                    /\ ev' = [Ev("confirm_sending", a) EXCEPT !.value = sat, !.file = TRUE]
                    /\ UNCHANGED failed
          ELSE /\ Finish(t)
               /\ ev' = [Ev("confirm_short", a) EXCEPT
                           !.value = sat, !.short = Fmt8(Shortfall(required, received))]
               /\ UNCHANGED failed
  /\ UNCHANGED <<ORDERS, disk, lock, issued, sends, was, runs, query>>

\* reply_document returns or raises; then lines 335-337, or the wait for the lock
ConfirmSent(t) ==
  LET a == tasks[t].addr IN
  /\ tasks[t].kind = "confirm" /\ tasks[t].pc = "send"
  /\ \/ /\ Finish(t)
        /\ ORDERS' = SendFailed(ORDERS, a)
        /\ AttemptFailed(a)
        /\ ev' = [Ev("confirm_send_raised", a) EXCEPT !.value = tasks[t].value]
        /\ UNCHANGED <<disk, lock, issued, sends, was, runs>>
     \/ /\ sends' = [sends EXCEPT ![a] = @ + 1]
        /\ UNCHANGED failed
        /\ IF Free
           THEN /\ MarkDelivered(a)
                /\ Finish(t)
                /\ ev' = [Ev("confirm_send_ok", a) EXCEPT
                            !.to = tasks[t].chat, !.value = tasks[t].value]
                /\ UNCHANGED <<lock, issued, runs>>
           ELSE /\ tasks' = [tasks EXCEPT ![t].pc = "lock"]
                /\ lock' = Append(lock, t)
                /\ ev' = [Ev("confirm_send_ok", a) EXCEPT
                            !.to = tasks[t].chat, !.value = tasks[t].value]
                /\ UNCHANGED <<ORDERS, disk, issued, was, runs>>
  /\ UNCHANGED query

\* the waiting /confirm handler is given the lock
ConfirmMark(t) ==
  /\ tasks[t].kind = "confirm" /\ tasks[t].pc = "lock" /\ Holds(t)
  /\ MarkDelivered(tasks[t].addr)
  /\ lock' = Tail(lock)
  /\ Finish(t)
  /\ ev' = [Ev("confirm_marked", tasks[t].addr) EXCEPT !.value = tasks[t].value]
  /\ UNCHANGED <<issued, sends, runs, failed, query>>

\* ---------------------------------------------------------------- blockonomics_callback
\* int(s) of a query parameter: Bad stands for the ValueError
Bad == -1
IntOf(s) ==
  CASE s = "1" -> 1
    [] s = "2" -> 2
    [] s = "5000" -> 5000
    [] s = "10000" -> 10000
    [] s = "15000" -> 15000
    [] OTHER -> Bad

\* line 412: int(round(float(order["amount_btc"]) * 1e8))
RequiredSats(a) == RoundSats(Order(a).amount_btc)

\* (mutant) a strict comparison of the value with the amount due
ShouldDeliver_Strict(status, value_sats, a) ==
  /\ status = Confirmed
  /\ value_sats > RequiredSats(a)
  /\ Order(a).status # "delivered"

\* (mutant) the check that the order is not yet delivered left out
ShouldDeliver_NoGuard(status, value_sats, a) ==
  /\ status = Confirmed
  /\ value_sats >= RequiredSats(a)

\* line 420
ShouldDeliver(status, value_sats, a) ==
  /\ status = Confirmed
  /\ value_sats >= RequiredSats(a)
  /\ Order(a).status # "delivered"

\* (mutant) the transaction id is not stored
Recorded_M(D, a, value_sats, txid) ==
  [D EXCEPT ![Pos(D, a)].received_sats = value_sats]

\* lines 417-418
Recorded(D, a, value_sats, txid) ==
  [D EXCEPT ![Pos(D, a)].received_sats = value_sats, ![Pos(D, a)].txid = txid]

\* line 444, the else branch of line 420
ResetStatus(D, a) == [D EXCEPT ![Pos(D, a)].status = "pending"]

\* lines 416-446 from the moment the lock is taken, up to the first await or to
\* the end; r is the handler, rest the handlers queued behind it
Update(t, r, rest) ==
  LET a == r.addr
      e == [Ev("callback", a) EXCEPT !.status = r.status, !.value = r.value,
                                     !.txid = r.txid, !.secret = SECRET]
  IN
  IF ShouldDeliver(r.status, r.value, a)
  THEN /\ ORDERS' = Recorded(ORDERS, a, r.value, r.txid)
       /\ \E files \in SUBSET Paths :
            LET found == FileExists(Order(a).item_key, files) IN
            /\ tasks' = [tasks EXCEPT ![t] =
                 [r EXCEPT !.pc = IF found THEN "send" ELSE "notify"]]
            /\ ev' = [e EXCEPT !.op = "callback_sending", !.file = found]
            /\ IF found THEN UNCHANGED failed ELSE AttemptFailed(a)
       /\ lock' = <<t>> \o rest
       /\ UNCHANGED <<disk, sends, was>>
  ELSE /\ ORDERS' = ResetStatus(Recorded(ORDERS, a, r.value, r.txid), a)
       /\ disk' = save_json(ORDERS')
       /\ lock' = rest
       /\ Finish(t)
       /\ ev' = [e EXCEPT !.op = "callback_reset", !.http = 200]
       /\ UNCHANGED <<sends, was, failed>>

\* the response of line 410 to a callback for an address without order
UnknownAddress(addr) ==
  [Ev("callback_unknown", addr) EXCEPT !.http = 200, !.secret = SECRET]

\* (mutant) an address without order is stored as a new order of the callback
Lookup_M(t, r, rest) ==
  IF ~Known(r.addr)
  THEN /\ Finish(t)
       /\ lock' = rest
       /\ ev' = UnknownAddress(r.addr)
       /\ ORDERS' = Append(ORDERS,
             [NewOrder("item1", None, None, r.addr) EXCEPT !.received_sats = r.value])
       /\ disk' = save_json(ORDERS')
       /\ UNCHANGED <<sends, was, failed>>
  ELSE IF rest = <<>>
       THEN Update(t, r, rest)
       ELSE /\ tasks' = [tasks EXCEPT ![t] = [r EXCEPT !.pc = "lock2"]]
            /\ lock' = Append(rest, t)
            /\ ev' = NoEv
            /\ UNCHANGED <<ORDERS, disk, sends, was, failed>>

\* lines 406-410 with the lock held, then the second acquire of line 416
Lookup(t, r, rest) ==
  IF ~Known(r.addr)
  THEN /\ Finish(t)
       /\ lock' = rest
       /\ ev' = UnknownAddress(r.addr)
       /\ UNCHANGED <<ORDERS, disk, sends, was, failed>>
  ELSE IF rest = <<>>
       THEN Update(t, r, rest)
       ELSE /\ tasks' = [tasks EXCEPT ![t] = [r EXCEPT !.pc = "lock2"]]
            /\ lock' = Append(rest, t)
            /\ ev' = NoEv
            /\ UNCHANGED <<ORDERS, disk, sends, was, failed>>

\* the provider calls the webhook: lines 391-403, then the first acquire
CallbackStart(t) ==
  /\ CanStart(t)
  /\ runs < MaxRuns
  /\ runs' = runs + 1
  /\ \E secret \in {SECRET, "guess"}, statusP \in {"1", "2", "x"}, addr \in Addrs,
        valueP \in {"5000", "10000", "15000", "x"}, txid \in Txids :
       LET r == [Idle EXCEPT !.kind = "callback", !.pc = "lock1", !.addr = addr,
                    !.status = IntOf(statusP), !.value = IntOf(valueP), !.txid = txid,
                    !.after = was[addr], !.base = sends[addr]]
       IN
       IF secret # SECRET
       THEN /\ ev' = [Ev("callback_forbidden", addr) EXCEPT
                         !.http = 403, !.secret = secret,
                         !.status = IntOf(statusP), !.value = IntOf(valueP)]
            /\ UNCHANGED <<ORDERS, disk, lock, tasks, sends, was, failed>>
       ELSE IF IntOf(statusP) = Bad \/ IntOf(valueP) = Bad
       THEN /\ ev' = [Ev("callback_badrequest", addr) EXCEPT
                         !.http = 400, !.secret = secret,
                         !.status = IntOf(statusP), !.value = IntOf(valueP)]
            /\ UNCHANGED <<ORDERS, disk, lock, tasks, sends, was, failed>>
       ELSE IF Free
       THEN Lookup(t, r, <<>>)
       ELSE /\ tasks' = [tasks EXCEPT ![t] = r]
            /\ lock' = Append(lock, t)
            /\ ev' = NoEv
            /\ UNCHANGED <<ORDERS, disk, sends, was, failed>>
  /\ UNCHANGED <<issued, query>>

\* the waiting callback is given the lock for the lookup
CallbackLookup(t) ==
  /\ tasks[t].kind = "callback" /\ tasks[t].pc = "lock1" /\ Holds(t)
  /\ Lookup(t, tasks[t], Tail(lock))
  /\ UNCHANGED <<issued, runs, query>>

\* the waiting callback is given the lock for the update
CallbackUpdate(t) ==
  /\ tasks[t].kind = "callback" /\ tasks[t].pc = "lock2" /\ Holds(t)
  /\ Update(t, tasks[t], Tail(lock))
  /\ UNCHANGED <<issued, runs, query>>

\* send_document returns or raises (lines 427-437), then line 446
CallbackSent(t) ==
  LET a == tasks[t].addr
      e == [Ev("callback", a) EXCEPT !.status = tasks[t].status,
               !.value = tasks[t].value, !.txid = tasks[t].txid, !.http = 200,
               !.secret = SECRET]
  IN
  /\ tasks[t].kind = "callback" /\ tasks[t].pc = "send"
  /\ \/ /\ sends' = [sends EXCEPT ![a] = @ + 1]
        /\ MarkDelivered(a)
        /\ ev' = [e EXCEPT !.op = "callback_send_ok", !.to = Order(a).chat_id]
        /\ UNCHANGED failed
     \/ /\ ORDERS' = SendFailed(ORDERS, a)
        /\ disk' = save_json(ORDERS')
        /\ AttemptFailed(a)
        /\ ev' = [e EXCEPT !.op = "callback_send_raised"]
        /\ UNCHANGED <<sends, was>>
  /\ lock' = Tail(lock)
  /\ Finish(t)
  /\ UNCHANGED <<issued, runs, query>>

\* (mutant) the lock is taken with acquire() and released by hand after
\* save_json: the exception of send_message leaves it held
CallbackNotified_M(t) ==
  LET a == tasks[t].addr
      e == [Ev("callback", a) EXCEPT !.status = tasks[t].status,
               !.value = tasks[t].value, !.txid = tasks[t].txid,
               !.secret = SECRET]
  IN
  /\ tasks[t].kind = "callback" /\ tasks[t].pc = "notify"
  /\ \/ /\ disk' = save_json(ORDERS)
        /\ ev' = [e EXCEPT !.op = "callback_notified", !.http = 200]
        /\ lock' = Tail(lock)
     \/ /\ ev' = [e EXCEPT !.op = "callback_notify_raised", !.http = 500]
        /\ UNCHANGED <<disk, lock>>
  /\ Finish(t)
  /\ UNCHANGED <<ORDERS, issued, sends, was, runs, failed, query>>

\* send_message returns (line 439, then 446) or raises out of the handler
CallbackNotified(t) ==
  LET a == tasks[t].addr
      e == [Ev("callback", a) EXCEPT !.status = tasks[t].status,
               !.value = tasks[t].value, !.txid = tasks[t].txid,
               !.secret = SECRET]
  IN
  /\ tasks[t].kind = "callback" /\ tasks[t].pc = "notify"
  /\ \/ /\ disk' = save_json(ORDERS)
        /\ ev' = [e EXCEPT !.op = "callback_notified", !.http = 200]
     \/ /\ ev' = [e EXCEPT !.op = "callback_notify_raised", !.http = 500]
        /\ UNCHANGED disk
  /\ lock' = Tail(lock)
  /\ Finish(t)
  /\ UNCHANGED <<ORDERS, issued, sends, was, runs, failed, query>>

\* ---------------------------------------------------------------- the system
Next ==
  \/ \E t \in Tasks : Buy(t)
  \/ \E t \in Tasks : BuyStore(t)
  \/ \E t \in Tasks : ConfirmStart(t)
  \/ \E t \in Tasks : ConfirmBalance(t)
  \/ \E t \in Tasks : ConfirmSent(t)
  \/ \E t \in Tasks : ConfirmMark(t)
  \/ \E t \in Tasks : CallbackStart(t)
  \/ \E t \in Tasks : CallbackLookup(t)
  \/ \E t \in Tasks : CallbackUpdate(t)
  \/ \E t \in Tasks : CallbackSent(t)
  \/ \E t \in Tasks : CallbackNotified(t)

Spec == Init /\ [][Next]_vars

\* ---------------------------------------------------------------- scheduling
\* the next step of a handler in progress: an external call (gateway, chat
\* send) returns or raises, or the handler is given the lock and runs on
Step(t) ==
  \/ BuyStore(t)
  \/ ConfirmBalance(t)
  \/ ConfirmSent(t)
  \/ ConfirmMark(t)
  \/ CallbackLookup(t)
  \/ CallbackUpdate(t)
  \/ CallbackSent(t)
  \/ CallbackNotified(t)

\* every external call ends, and the event loop runs every task that is ready
Fairness == \A t \in Tasks : WF_vars(Step(t))

SpecFair == Init /\ [][Next]_vars /\ Fairness

\* ---------------------------------------------------------------- purchases and callbacks only
\* the behaviours in which nobody sends /confirm: buyers buy and the provider
\* calls the webhook, with up to MaxCallbacks handlers in progress
InitCallbacks ==
  /\ ORDERS = <<>>
  /\ disk = <<>>
  /\ lock = <<>>
  /\ tasks = [t \in CallbackTasks |-> Idle]
  /\ issued = 0
  /\ sends = [a \in Addrs |-> 0]
  /\ was = [a \in Addrs |-> FALSE]
  /\ runs = 0
  /\ ev = NoEv
  /\ failed = [a \in Addrs |-> FALSE]
  /\ query = NoQuery

NextCallbacks ==
  \/ \E t \in CallbackTasks : Buy(t)
  \/ \E t \in CallbackTasks : BuyStore(t)
  \/ \E t \in CallbackTasks : CallbackStart(t)
  \/ \E t \in CallbackTasks : CallbackLookup(t)
  \/ \E t \in CallbackTasks : CallbackUpdate(t)
  \/ \E t \in CallbackTasks : CallbackSent(t)
  \/ \E t \in CallbackTasks : CallbackNotified(t)

SpecCallbacks == InitCallbacks /\ [][NextCallbacks]_vars

\* ---------------------------------------------------------------- blockonomics_confirmed_btc
\* what an endpoint does with a request: the connection fails (status 0), or
\* it answers with a status code and a body; a body is a JSON document without
\* the "confirmed" entry, a document float() cannot use, or one with a number
Bodies ==
  {[kind |-> "missing", confirmed |-> 0], [kind |-> "unusable", confirmed |-> 0]}
    \cup {[kind |-> "number", confirmed |-> v] : v \in {0} \cup Values}
Unreachable == [status |-> 0, body |-> [kind |-> "missing", confirmed |-> 0]]
Responses ==
  {Unreachable, [status |-> 500, body |-> [kind |-> "unusable", confirmed |-> 0]]}
    \cup {[status |-> 200, body |-> b] : b \in Bodies}

Raised(attempts) == [raised |-> TRUE, btc |-> 0, attempts |-> attempts]
Returned(sat, attempts) == [raised |-> FALSE, btc |-> SatToBtc(sat), attempts |-> attempts]

\* lines 177-198: the outcome of the call and the endpoints it has requested
blockonomics_confirmed_btc(api_key, primary, secondary) ==
  IF ~api_key THEN Raised(<<>>)
  ELSE IF primary = Unreachable THEN Raised(<<"primary">>)
  ELSE IF primary.status = 200
  THEN IF primary.body.kind = "unusable" THEN Raised(<<"primary">>)
       ELSE Returned(primary.body.confirmed, <<"primary">>)
  ELSE IF secondary = Unreachable \/ secondary.status # 200
            \/ secondary.body.kind # "number"
       THEN Raised(<<"primary", "secondary">>)
       ELSE Returned(secondary.body.confirmed, <<"primary", "secondary">>)

\* a call on its own: the key is set or not, and each endpoint answers somehow
InitQuery ==
  /\ ORDERS = <<>>
  /\ disk = <<>>
  /\ lock = <<>>
  /\ tasks = [t \in Tasks |-> Idle]
  /\ issued = 0
  /\ sends = [a \in Addrs |-> 0]
  /\ was = [a \in Addrs |-> FALSE]
  /\ runs = 0
  /\ ev = NoEv
  /\ failed = [a \in Addrs |-> FALSE]
  /\ \E api_key \in BOOLEAN, primary \in Responses, secondary \in Responses :
       query = [pc |-> "call", api_key |-> api_key, primary |-> primary,
                secondary |-> secondary, result |-> Raised(<<>>)]

BalanceQuery ==
  /\ query.pc = "call"
  /\ query' = [query EXCEPT !.pc = "done",
                 !.result = blockonomics_confirmed_btc(query.api_key, query.primary,
                                                       query.secondary)]
  /\ UNCHANGED <<ORDERS, disk, lock, tasks, issued, sends, was, runs, ev, failed>>

NextQuery == BalanceQuery

SpecQuery == InitQuery /\ [][NextQuery]_vars

\* ---------------------------------------------------------------- properties
\* the amount due of the order under address a, in satoshis
DueSats(a) == Order(a).amount_btc \div UnitPerSat

\* handler t completes a send of the file of its order in this step
SendsNow(t) ==
  /\ tasks[t].pc = "send"
  /\ tasks'[t] # tasks[t]
  /\ sends'[tasks[t].addr] = sends[tasks[t].addr] + 1

\* C1: once an order's status has been delivered, no callback or poll that
\* starts afterwards sends the file of that order again.
C1_NoSendAfterDelivered ==
  [][\A t \in Tasks : tasks[t].after => ~SendsNow(t)]_vars

\* C2: an order's status only moves forward: a delivered order is never set
\* back to pending by a later callback or poll.
C2_StatusOnlyForward ==
  [][\A a \in Addrs :
       (Known(a) /\ Order(a).status = "delivered")
          => ORDERS'[Pos(ORDERS', a)].status = "delivered"]_vars

\* C3: confirmation handlers that overlap in time on the same pending order
\* never both deliver: when a handler sends the file, no other handler has
\* sent it since this handler started.
C3_OverlapSendsOnce ==
  [][\A t \in Tasks :
       (SendsNow(t) /\ ~tasks[t].after) => sends[tasks[t].addr] = tasks[t].base]_vars

\* C4: an order has status delivered, in memory or in the ledger file, only
\* if a send of its file has completed.
C4_DeliveredOnlyIfSent ==
  /\ \A i \in 1..Len(ORDERS) :
       ORDERS[i].status = "delivered" => sends[ORDERS[i].address] >= 1
  /\ \A i \in 1..Len(disk) :
       disk[i].status = "delivered" => sends[disk[i].address] >= 1

ErrorOps == {"confirm_gwfail", "confirm_nofile", "confirm_send_raised",
             "callback_send_raised", "callback_notified", "callback_notify_raised"}

\* an order was delivered after its file was sent, and an error path has just
\* left another order, whose file was never sent, pending
C4_Witness ==
  /\ ev.op \in ErrorOps
  /\ Known(ev.addr) /\ Order(ev.addr).status = "pending" /\ sends[ev.addr] = 0
  /\ \E a \in Addrs : Known(a) /\ Order(a).status = "delivered" /\ sends[a] = 1

\* the steps in which a callback handler holds the lock and applies lines 417-444
UpdateOps == {"callback_reset", "callback_sending"}

\* the steps in which a /confirm handler compares the balance it obtained
BalanceOps == {"confirm_short", "confirm_nofile", "confirm_sending"}

\* the order stored under address a after the step, in memory and in the file
OrderAfter(a) == ORDERS'[Pos(ORDERS', a)]
DiskAfter(a) == disk'[Pos(disk', a)]

\* no handler begins a send of a file in this step
NoSendBegins == \A t \in Tasks : tasks'[t].pc = "send" => tasks[t].pc = "send"

\* C5: a callback for the address of a pending order that does not meet the
\* confirmation condition (status code other than 2, or value below the amount
\* due in satoshis) sends no file, leaves the order pending and records its
\* value and transaction id on the order, in memory and in the ledger file.
C5_UnmetCallbackRecords ==
  [][(/\ ev'.op \in UpdateOps
      /\ Order(ev'.addr).status = "pending"
      /\ ~(ev'.status = 2 /\ ev'.value >= DueSats(ev'.addr)))
     => /\ ev'.op = "callback_reset"
        /\ sends' = sends
        /\ NoSendBegins
        /\ OrderAfter(ev'.addr).status = "pending"
        /\ OrderAfter(ev'.addr).received_sats = ev'.value
        /\ OrderAfter(ev'.addr).txid = ev'.txid
        /\ ev'.txid \in Txids
        /\ DiskAfter(ev'.addr) = OrderAfter(ev'.addr)]_vars

\* a partially confirmed callback has just been recorded on an order that was
\* never delivered
C5_Witness ==
  /\ ev.op = "callback_reset" /\ ev.status = 1
  /\ ~was[ev.addr] /\ sends[ev.addr] = 0
  /\ Order(ev.addr).status = "pending"
  /\ Order(ev.addr).received_sats = ev.value
  /\ Order(ev.addr).txid = "tx1"
  /\ disk = ORDERS

\* C6: a callback with status 2 and a value of at least the amount due in
\* satoshis, for the address of a pending order whose file exists, sends the
\* file; when the send succeeds the order becomes delivered, is persisted, and
\* the file has been sent exactly once by that callback.
C6_ConfirmedCallbackDelivers ==
  [][/\ (/\ ev'.op \in UpdateOps
         /\ ev'.status = 2 /\ ev'.value >= DueSats(ev'.addr)
         /\ Order(ev'.addr).status = "pending")
        => /\ ev'.op = "callback_sending"
           /\ ev'.file =>
                \E t \in Tasks : /\ tasks'[t].kind = "callback"
                                 /\ tasks'[t].pc = "send"
                                 /\ tasks'[t].addr = ev'.addr
     /\ ev'.op = "callback_send_ok"
        => /\ sends' = [sends EXCEPT ![ev'.addr] = @ + 1]
           /\ OrderAfter(ev'.addr).status = "delivered"
           /\ DiskAfter(ev'.addr) = OrderAfter(ev'.addr)
           /\ ev'.http = 200
           /\ \A t \in Tasks : tasks'[t].kind = "callback" => tasks'[t] = tasks[t]]_vars

\* the item costs 0.0001 BTC and a callback with status 2 and value 10000 has
\* just delivered it: one send, status delivered in memory and in the file
C6_Witness ==
  /\ ev.op = "callback_send_ok" /\ ev.status = 2 /\ ev.value = 10000
  /\ Order(ev.addr).amount_btc = 100000000
  /\ Order(ev.addr).status = "delivered"
  /\ sends[ev.addr] = 1
  /\ disk = ORDERS

\* C7: in a /confirm poll, a confirmed balance greater than or equal to the
\* amount due, equality included, is never answered with a shortfall: the
\* delivery is attempted; when the send succeeds the order becomes delivered
\* and the ledger is persisted, at once or, when the lock is held by another
\* handler, as soon as the handler is given the lock.
C7_PollSatisfiedAtEquality ==
  [][/\ (ev'.op \in BalanceOps /\ ev'.value >= DueSats(ev'.addr))
        => /\ ev'.op # "confirm_short"
           /\ ev'.op = "confirm_sending"
                => \E t \in Tasks : /\ tasks'[t].kind = "confirm"
                                    /\ tasks'[t].pc = "send"
                                    /\ tasks'[t].addr = ev'.addr
     /\ ev'.op = "confirm_send_ok"
        => /\ sends' = [sends EXCEPT ![ev'.addr] = @ + 1]
           /\ \/ /\ OrderAfter(ev'.addr).status = "delivered"
                 /\ disk' = ORDERS'
              \/ \E i \in 2..Len(lock') :
                    /\ tasks'[lock'[i]].kind = "confirm"
                    /\ tasks'[lock'[i]].pc = "lock"
                    /\ tasks'[lock'[i]].addr = ev'.addr
     /\ ev'.op = "confirm_marked"
        => /\ OrderAfter(ev'.addr).status = "delivered"
           /\ disk' = ORDERS']_vars

\* a poll that obtained exactly the amount due has just sent the file and
\* marked the order delivered, in memory and in the file
C7_Witness ==
  /\ ev.op = "confirm_send_ok"
  /\ ev.value * UnitPerSat = Order(ev.addr).amount_btc
  /\ Order(ev.addr).status = "delivered"
  /\ sends[ev.addr] = 1
  /\ disk = ORDERS

\* C8: in a /confirm poll, a confirmed balance below the amount due is
\* answered with the shortfall, amount due minus received; no file is sent and
\* the order and the ledger file are left as they were, a pending order pending.
C8_PollShortfall ==
  [][(ev'.op \in BalanceOps /\ ev'.value < DueSats(ev'.addr))
     => /\ ev'.op = "confirm_short"
        /\ ev'.short = DueSats(ev'.addr) - ev'.value
        /\ NoSendBegins
        /\ UNCHANGED <<ORDERS, disk, sends>>
        /\ Order(ev'.addr).status = "pending"
             => OrderAfter(ev'.addr).status = "pending"]_vars

\* received 0.00005 BTC against 0.0001 BTC due: the reply names a shortfall of
\* 0.00005 BTC and the order is pending, its file never sent
C8_Witness ==
  /\ ev.op = "confirm_short" /\ ev.value = 5000 /\ ev.short = 5000
  /\ Order(ev.addr).amount_btc = 100000000
  /\ Order(ev.addr).status = "pending"
  /\ sends[ev.addr] = 0
  /\ disk = ORDERS

\* C9: a callback with a valid secret for an address without order is answered
\* 200 and changes nothing: no order is created or modified, the ledger file
\* is unchanged and nothing is sent; and only a callback for an address with an
\* order gets as far as updating one.
C9_UnknownAddressIgnored ==
  [][/\ ev'.op = "callback_unknown"
        => /\ ev'.http = 200
           /\ ~Known(ev'.addr)
           /\ UNCHANGED <<ORDERS, disk, sends, was>>
           /\ NoSendBegins
     /\ ev'.op \in UpdateOps => Known(ev'.addr)
     /\ ORDERS' # ORDERS /\ ev'.http # 0 => Known(ev'.addr)]_vars

\* a callback for an address without order has just been answered 200 while
\* the ledger holds another order
C9_Witness ==
  /\ ev.op = "callback_unknown" /\ ev.http = 200
  /\ ~Known(ev.addr)
  /\ Len(ORDERS) = 1 /\ disk = ORDERS

CallbackOps == {"callback_forbidden", "callback_badrequest", "callback_unknown",
                "callback_reset", "callback_sending", "callback_send_ok",
                "callback_send_raised", "callback_notified", "callback_notify_raised"}

\* C10: the callback sends the file and marks the order delivered only when
\* the status code is 2, the value is at least the amount due in satoshis and
\* the order is not already delivered; a callback that finds the order
\* delivered never sends the file.
C10_CallbackDeliveryGuard ==
  [][/\ ev'.op = "callback_send_ok"
        => /\ ev'.status = 2
           /\ ev'.value >= DueSats(ev'.addr)
           /\ Order(ev'.addr).status # "delivered"
     /\ (/\ ev'.op \in UpdateOps
         /\ ~(/\ ev'.status = 2
              /\ ev'.value >= DueSats(ev'.addr)
              /\ Order(ev'.addr).status # "delivered"))
        => /\ ev'.op = "callback_reset"
           /\ NoSendBegins
     /\ ev'.op \in CallbackOps \ {"callback_send_ok"}
        => /\ sends' = sends
           /\ \A i \in 1..Len(ORDERS) :
                ORDERS'[i].status = "delivered" => ORDERS[i].status = "delivered"]_vars

\* a confirmed callback with the full value has just found the order already
\* delivered and has ended without sending the file a second time
C10_Witness ==
  /\ ev.op = "callback_reset" /\ ev.status = 2
  /\ ev.value >= DueSats(ev.addr)
  /\ was[ev.addr] /\ sends[ev.addr] = 1
  /\ \A t \in Tasks : tasks[t] = Idle

\* C11: the callback endpoint answers 403 whenever the secret does not match
\* and 400 whenever status or value is not an integer, and then leaves the
\* ledger, in memory and in the file, unchanged and sends no file, also for
\* the address of a pending order with parameters that would confirm it;
\* every other request is answered 200.
C11_CallbackResponses ==
  [][(ev'.op \in CallbackOps /\ ev'.http # 0)
     => IF ev'.secret # SECRET
        THEN /\ ev'.http = 403
             /\ UNCHANGED <<ORDERS, disk, sends>>
             /\ NoSendBegins
        ELSE IF ev'.status = Bad \/ ev'.value = Bad
        THEN /\ ev'.http = 400
             /\ UNCHANGED <<ORDERS, disk, sends>>
             /\ NoSendBegins
        ELSE ev'.http = 200]_vars

\* C12: a gateway failure leaves the ledger unchanged: when the issue of an
\* address fails in a buy, no order is created and nothing is written; when
\* the balance query fails in a /confirm poll, the order keeps its status and
\* fields, the ledger file is unchanged and no file is sent.
C12_GatewayFailureKeepsLedger ==
  [][/\ ev'.op = "buy_gwfail"
        => /\ UNCHANGED <<ORDERS, disk, issued, sends, lock>>
           /\ \A t \in Tasks : tasks'[t].kind = "buy" => tasks'[t] = tasks[t]
     /\ ev'.op = "confirm_gwfail"
        => /\ UNCHANGED <<ORDERS, disk, sends, lock>>
           /\ NoSendBegins
           /\ \A t \in Tasks : tasks'[t].kind = "confirm" => tasks'[t] = tasks[t]]_vars

\* the balance query of a poll for a pending order has just failed: the order
\* is pending, its file was never sent, the file equals the ledger
C12_Witness ==
  /\ ev.op = "confirm_gwfail"
  /\ Order(ev.addr).status = "pending"
  /\ sends[ev.addr] = 0 /\ ~was[ev.addr]
  /\ Len(ORDERS) = issued
  /\ disk = ORDERS

\* the steps in which a delivery attempt of a handler ends in failure: the
\* file is missing or the send raised
PollFailOps == {"confirm_nofile", "confirm_send_raised"}
CallbackFailOps == {"callback_send_raised", "callback_notified", "callback_notify_raised"}

\* C13: a delivery attempt that fails, because the file is missing or the send
\* raises, in the poll path or in the callback path, does not change the
\* order's status, which stays pending; and for an order with a failed attempt
\* that is pending, a later confirmation that meets the condition while the
\* file exists and the send succeeds sends the file and marks it delivered.
C13_FailedDeliveryRetries ==
  [][/\ (\/ ev'.op \in PollFailOps \cup CallbackFailOps
         \/ ev'.op = "callback_sending" /\ ~ev'.file)
        => /\ failed'[ev'.addr]
           /\ OrderAfter(ev'.addr).status = Order(ev'.addr).status
           /\ sends' = sends
           /\ NoSendBegins
           /\ ev'.op \notin PollFailOps => OrderAfter(ev'.addr).status = "pending"
     /\ \A a \in Addrs :
          (failed[a] /\ Known(a) /\ Order(a).status = "pending" /\ ev'.addr = a)
          => /\ (ev'.op \in UpdateOps /\ ev'.status = 2 /\ ev'.value >= DueSats(a))
                => /\ ev'.op = "callback_sending"
                   /\ ev'.file => \E t \in Tasks : /\ tasks'[t].kind = "callback"
                                                    /\ tasks'[t].pc = "send"
                                                    /\ tasks'[t].addr = a
             /\ (ev'.op \in BalanceOps /\ ev'.value >= DueSats(a))
                => ev'.op \in {"confirm_sending", "confirm_nofile"}
             /\ ev'.op = "callback_send_ok"
                => /\ OrderAfter(a).status = "delivered"
                   /\ disk' = ORDERS'
                   /\ sends'[a] = sends[a] + 1
             /\ ev'.op = "confirm_send_ok"
                => /\ sends'[a] = sends[a] + 1
                   /\ \/ OrderAfter(a).status = "delivered" /\ disk' = ORDERS'
                      \/ \E t \in Tasks : /\ tasks'[t].kind = "confirm"
                                           /\ tasks'[t].pc = "lock"
                                           /\ tasks'[t].addr = a
             /\ ev'.op = "confirm_marked"
                => OrderAfter(a).status = "delivered" /\ disk' = ORDERS']_vars

\* after a failed delivery attempt for an order, a later poll has just sent
\* its file, for the first time, and marked it delivered
C13_Witness ==
  /\ ev.op = "confirm_send_ok"
  /\ failed[ev.addr]
  /\ Order(ev.addr).status = "delivered"
  /\ sends[ev.addr] = 1
  /\ disk = ORDERS
  /\ \A t \in Tasks : tasks[t] = Idle

\* C14: every handler that changes the ledger in memory writes the ledger file
\* before it finishes, on every path: whenever no handler is in progress, the
\* ledger file equals the ledger in memory.
C14_PersistedWhenQuiet ==
  (\A t \in Tasks : tasks[t] = Idle) => disk = ORDERS

\* C15: every reconciliation pass records the amount it observed on the
\* order, whether or not the status changes: after a /confirm poll that
\* obtained a balance, as after a payment callback, the received amount of the
\* order equals the amount just observed.
C15_PassRecordsReceived ==
  [][(ev'.op \in BalanceOps \cup UpdateOps)
     => OrderAfter(ev'.addr).received_sats = ev'.value]_vars

\* the addresses of the pending orders of user uid; addresses are issued in
\* the order in which the orders are created
PendingOf(uid) ==
  {a \in Addrs : Known(a) /\ Order(a).user_id = uid /\ Order(a).status = "pending"}

\* C16: a /confirm poll of a user works on the most recently created pending
\* order of that user; when the user has no pending order the poll reports
\* that, without a gateway query, a send or a change of the ledger.
C16_PollSelectsLatestPending ==
  [][\A uid \in Users :
       /\ \A t \in Tasks :
            (tasks[t] = Idle /\ tasks'[t].kind = "confirm" /\ tasks'[t].user = uid)
            => /\ PendingOf(uid) # {}
               /\ tasks'[t].addr \in PendingOf(uid)
               /\ \A a \in PendingOf(uid) : a <= tasks'[t].addr
               /\ tasks'[t].pc = "balance"
       /\ (ev'.op = "confirm_none" /\ ev'.to = uid)
            => /\ PendingOf(uid) = {}
               /\ UNCHANGED <<ORDERS, disk, sends, tasks, lock>>]_vars

\* a user with two pending orders has just sent /confirm: the handler works
\* on the order created last
C16_Witness ==
  /\ Len(ORDERS) = 2 /\ runs = 1
  /\ \E t \in Tasks :
       /\ tasks[t].kind = "confirm" /\ tasks[t].pc = "balance"
       /\ tasks[t].addr = 2
       /\ PendingOf(tasks[t].user) = {1, 2}

\* C17: whenever the file of an order is sent, by a poll or by a callback, it
\* is sent to the chat recorded in the order, also when /confirm comes from
\* another chat than the purchase.
C17_SentToOrderChat ==
  [][ev'.op \in {"confirm_send_ok", "callback_send_ok"}
     => ev'.to = Order(ev'.addr).chat_id]_vars

\* the endpoint gave no successful result: it was unreachable, answered with
\* another status than 200, or its response could not be used
NoResult(response) ==
  response = Unreachable \/ response.status # 200 \/ response.body.kind = "unusable"

\* C18: the balance query fails only after both endpoints were attempted:
\* whenever the primary endpoint gives no successful result (status other
\* than 200, unreachable, unusable response) the secondary endpoint is
\* queried, and its result is returned when it succeeds.
C18_FallbackBeforeFailure ==
  (query.pc = "done" /\ query.api_key)
  => /\ query.result.raised => query.result.attempts = <<"primary", "secondary">>
     /\ NoResult(query.primary)
          => /\ query.result.attempts = <<"primary", "secondary">>
             /\ (query.secondary.status = 200 /\ query.secondary.body.kind = "number")
                  => /\ ~query.result.raised
                     /\ query.result.btc = SatToBtc(query.secondary.body.confirmed)

\* the step neither changes the order under address a nor sends its file
Untouched(a) == OrderAfter(a) = Order(a) /\ sends'[a] = sends[a]

\* C19: a /confirm poll of user U never sends the file of, nor changes a
\* field of, an order of another user; a callback for address A never changes
\* an order under another address; and item_key, user_id, chat_id, address
\* and amount_btc of an order are never changed by a poll or a callback.
C19_FrameOfPollAndCallback ==
  [][/\ \A t \in Tasks :
          (tasks[t].kind = "confirm" /\ tasks'[t] # tasks[t])
          => \A a \in Addrs :
               (Known(a) /\ Order(a).user_id # tasks[t].user) => Untouched(a)
     /\ ev'.op \in CallbackOps
          => \A a \in Addrs : (Known(a) /\ a # ev'.addr) => Untouched(a)
     /\ \A i \in 1..Len(ORDERS) :
          /\ Len(ORDERS') >= i
          /\ ORDERS'[i].item_key = ORDERS[i].item_key
          /\ ORDERS'[i].user_id = ORDERS[i].user_id
          /\ ORDERS'[i].chat_id = ORDERS[i].chat_id
          /\ ORDERS'[i].address = ORDERS[i].address
          /\ ORDERS'[i].amount_btc = ORDERS[i].amount_btc]_vars

\* two users have one order each; a poll of the first has just delivered the
\* first order, and the second order is as it was created, its file not sent
C19_Witness ==
  /\ Len(ORDERS) = 2
  /\ Order(1).user_id # Order(2).user_id
  /\ ev.op = "confirm_send_ok" /\ ev.addr = 1
  /\ Order(1).status = "delivered"
  /\ Order(2) = NewOrder(Order(2).item_key, Order(2).user_id, Order(2).chat_id, 2)
  /\ sends[2] = 0

\* C20: two payment callbacks for the same address that overlap in time never
\* both send the file: when a callback sends the file, no callback has sent
\* the file of that order since this callback started.
C20_OverlappingCallbacksSendOnce ==
  [][\A t \in CallbackTasks :
       (tasks[t].kind = "callback" /\ SendsNow(t))
       => sends[tasks[t].addr] = tasks[t].base]_vars

\* the positions at which a handler waits for orders_lock, or has been given
\* it and has not run yet
LockPcs == {"lock", "lock1", "lock2"}

\* handler t holds orders_lock across an await
InCritical(t) == tasks[t].kind = "callback" /\ tasks[t].pc \in {"send", "notify"}

\* orders_lock is held by at most one handler, no handler holds it or waits
\* for it twice, and a handler that has ended neither holds it nor waits
LockDiscipline ==
  /\ \A i, j \in 1..Len(lock) : lock[i] = lock[j] => i = j
  /\ \A i \in 1..Len(lock) :
       /\ tasks[lock[i]] # Idle
       /\ i > 1 => tasks[lock[i]].pc \in LockPcs
       /\ i = 1 => tasks[lock[i]].pc \in LockPcs \/ InCritical(lock[i])
  /\ \A t \in Tasks :
       (tasks[t].pc \in LockPcs \/ InCritical(t)) => \E i \in 1..Len(lock) : lock[i] = t
  /\ \A t, u \in Tasks : (InCritical(t) /\ InCritical(u)) => t = u

\* C21: orders_lock is held by at most one handler at a time, is never
\* acquired by a handler that holds it, and is released on every exit path,
\* exceptions included; given that every external call returns or raises,
\* every handler that has started finishes, and none waits for the lock forever.
C21_LockAndTermination ==
  /\ []LockDiscipline
  /\ \A t \in Tasks : []<>(tasks[t] = Idle)

\* a callback has just ended with the exception of send_message while another
\* handler waited for the lock: the lock has passed to that handler
C21_Witness ==
  /\ ev.op = "callback_notify_raised"
  /\ Len(lock) = 1
  /\ tasks[Head(lock)].pc \in LockPcs
  /\ \A t \in Tasks : t # Head(lock) => tasks[t] = Idle

====
